---- MODULE Spec2Model ----
(***************************************************************************)
(* A model of wallhaven.py: the Wallpaper metadata codec (filename /       *)
(* from_filepath), the weighted selector (choose_random_background), the   *)
(* commands that move the GNOME background pointer and the files           *)
(* (delete-wallpaper, save-wallpaper, show-wallpaper), and the concurrent  *)
(* batch download (get-wallpapers, download_wallpapers, Wallpaper.download *)
(* under backoff.on_exception).                                            *)
(*                                                                         *)
(* A Python string is a sequence of atoms.  The separators the code parses *)
(* on ("/", "-", ".") are atoms of their own; a run of other characters    *)
(* ("wallhaven", "anime", "jpg", "a") is one atom.  A pathlib.Path is the  *)
(* sequence of its parts, each part a string.                              *)
(***************************************************************************)
EXTENDS Integers, Sequences, FiniteSets, TLC

VARIABLES
    \* codec: a record, its encoded path, the result of decoding it
    rec, enc, dec, cpc,
    \* desktop and disk: files on disk, the picture-uri setting, last command
    fs, bg, last,
    \* batch download: per-task state and the state of the command
    descr, task, gather, session, command

codecVars == <<rec, enc, dec, cpc>>
deskVars == <<fs, bg, last>>
batchVars == <<descr, task, gather, session, command>>
vars == <<rec, enc, dec, cpc, fs, bg, last, descr, task, gather, session, command>>

----------------------------------------------------------------------------
(* Bounds of the model *)

\* longest wallpaper id (in atoms) the codec is tried on
MaxIdLen == 2
\* most files on disk at any time
MaxFiles == 3
\* most descriptors in one batch
MaxBatch == 2
\* chunks of 1024 bytes in one response body
MaxChunks == 2
\* most attempts backoff can start inside its 60 s window
MaxTries == 3

----------------------------------------------------------------------------
(* Strings *)

CATEGORIES == {<<"general">>, <<"anime">>, <<"people">>}
PURITY == {<<"sfw">>, <<"sketchy">>, <<"nsfw">>}
Kinds == {<<"fresh">>, <<"saved">>}

Separators == {"/", "-", "."}

\* \w of the regular expression: an atom that is no separator
IsWord(a) == a \notin Separators

RECURSIVE Split(_, _)
\* str.split(sep): the pieces between the occurrences of sep, empty ones kept
Split(s, sep) ==
    IF \A i \in 1..Len(s) : s[i] # sep
    THEN <<s>>
    ELSE LET i == CHOOSE k \in 1..Len(s) :
                      s[k] = sep /\ \A j \in 1..(k - 1) : s[j] # sep
         IN  <<SubSeq(s, 1, i - 1)>> \o Split(SubSeq(s, i + 1, Len(s)), sep)

RECURSIVE Join(_, _)
\* sep.join(pieces)
Join(pieces, sep) ==
    IF Len(pieces) = 0 THEN <<>>
    ELSE IF Len(pieces) = 1 THEN pieces[1]
    ELSE pieces[1] \o <<sep>> \o Join(Tail(pieces), sep)

\* str.rfind("."): the last position of a dot, 0 when there is none
RFindDot(name) ==
    IF \E i \in 1..Len(name) : name[i] = "."
    THEN CHOOSE i \in 1..Len(name) :
             name[i] = "." /\ \A j \in (i + 1)..Len(name) : name[j] # "."
    ELSE 0

\* str.replace(old, ""), old a single atom
Remove(s, old) == SelectSeq(s, LAMBDA a : a # old)

----------------------------------------------------------------------------
(* pathlib *)

IsAbsolute(s) == Len(s) > 0 /\ s[1] = "/"

KeepPart(c) == c # <<>> /\ c # <<".">>

\* Path(s).parts: the anchor of an absolute path, then the components that are
\* neither empty nor "."
PathParts(s) ==
    (IF IsAbsolute(s) THEN << <<"/">> >> ELSE <<>>)
        \o SelectSeq(Split(s, "/"), KeepPart)

Anchored(parts) == Len(parts) > 0 /\ parts[1] = <<"/">>

\* str(Path): "/" and the components joined by "/"; "." for the empty path
PathStr(parts) ==
    IF Len(parts) = 0 THEN <<".">>
    ELSE IF Anchored(parts) THEN <<"/">> \o Join(Tail(parts), "/")
    ELSE Join(parts, "/")

\* Path.name: the last component, empty for a bare anchor
PathName(parts) ==
    IF Len(parts) = 0 \/ (Anchored(parts) /\ Len(parts) = 1) THEN <<>>
    ELSE parts[Len(parts)]

\* Path.suffix: from the last dot of the name, when that dot is neither the
\* first nor the last character
PathSuffix(parts) ==
    LET name == PathName(parts)
        i == RFindDot(name)
    IN  IF 1 < i /\ i < Len(name) THEN SubSeq(name, i, Len(name)) ELSE <<>>

\* Path.stem: the name without its suffix
PathStem(parts) ==
    LET name == PathName(parts)
        i == RFindDot(name)
    IN  IF 1 < i /\ i < Len(name) THEN SubSeq(name, 1, i - 1) ELSE name

\* len(Path.parents)
NumParents(parts) == IF Anchored(parts) THEN Len(parts) - 1 ELSE Len(parts)

----------------------------------------------------------------------------
(* Wallpaper: the metadata codec *)

Wallpaper(id, url, category, purity, destination_path, kind) ==
    [id |-> id, url |-> url, category |-> category, purity |-> purity,
     destination_path |-> destination_path, kind |-> kind]

\* f"wallhaven-{self.id}-{self.purity}{suffix}"
BaseName(wp) ==
    <<"wallhaven", "-">> \o wp.id \o <<"-">> \o wp.purity
        \o PathSuffix(PathParts(wp.url))

\* Wallpaper.filename: Path(destination_path, kind, category) / fn, as parts
filename(wp) ==
    PathParts(wp.destination_path \o <<"/">> \o wp.kind \o <<"/">>
                  \o wp.category \o <<"/">> \o BaseName(wp))

Raised(e) == [ok |-> FALSE, err |-> e]

\* from_filepath splitting path.name where the code splits path.stem
from_filepath_name(filepath) ==
    LET path == PathParts(filepath)
        n == Len(path)
        toks == Split(PathName(path), "-")
    IN  IF n < 2 THEN Raised("IndexError")
        ELSE IF Len(toks) # 3 THEN Raised("ValueError")
        ELSE IF NumParents(path) < 3 \/ n < 3 THEN Raised("IndexError")
        ELSE [ok |-> TRUE,
              wp |-> Wallpaper(toks[2], filepath, path[n - 1], toks[3],
                               PathStr(SubSeq(path, 1, n - 3)), path[n - 2])]

\* Wallpaper.from_filepath: the record, or the exception Python raises
from_filepath(filepath) ==
    LET path == PathParts(filepath)
        n == Len(path)
        toks == Split(PathStem(path), "-")
    IN  IF n < 2 THEN Raised("IndexError")
        ELSE IF Len(toks) # 3 THEN Raised("ValueError")
        ELSE IF NumParents(path) < 3 \/ n < 3 THEN Raised("IndexError")
        ELSE [ok |-> TRUE,
              wp |-> Wallpaper(toks[2], filepath, path[n - 1], toks[3],
                               PathStr(SubSeq(path, 1, n - 3)), path[n - 2])]

----------------------------------------------------------------------------
(* Specification of the codec: a record is encoded, the path is decoded *)

IdAtoms == {"a", ".", "-", "/"}

IdStrings == UNION {[1..n -> IdAtoms] : n \in 0..MaxIdLen}

\* the API's "path" of an image: with an extension, and without one
Urls == {<<"https:", "/", "/", "w", "/", "full", "/", "x", ".", "jpg">>,
         <<"https:", "/", "/", "w", "/", "full", "/", "x">>}

\* --destination: absolute, nested, relative
Roots == {<<"/", "pics">>, <<"/", "pics", "/", "w">>, <<"pics">>}

NoPath == <<>>
NoRecord == [ok |-> FALSE, err |-> "none"]

CodecInit ==
    /\ rec \in {Wallpaper(i, u, c, p, d, k) :
                    i \in IdStrings, u \in Urls, c \in CATEGORIES,
                    p \in PURITY, d \in Roots, k \in Kinds}
    /\ enc = NoPath
    /\ dec = NoRecord
    /\ cpc = "new"

Encode ==
    /\ cpc = "new"
    /\ enc' = PathStr(filename(rec))
    /\ cpc' = "encoded"
    /\ UNCHANGED <<rec, dec, deskVars, batchVars>>

Decode ==
    /\ cpc = "encoded"
    /\ dec' = from_filepath(enc)
    /\ cpc' = "decoded"
    /\ UNCHANGED <<rec, enc, deskVars, batchVars>>

----------------------------------------------------------------------------
(* The GNOME picture-uri setting *)

\* set_as_background: the string written to picture-uri
Uri(wp) == <<"file://">> \o PathStr(filename(wp))

\* get_current: picture-uri with every "file://" removed, decoded
get_current(uri) == from_filepath(Remove(uri, "file://"))

----------------------------------------------------------------------------
(* choose_random_background: the weighted selector *)

\* click hands over the categories as a tuple; delete_wallpaper hands over
\* one string, and then "cat in category" is Python's substring test
Tuple(items) == [isstr |-> FALSE, items |-> items]
OneStr(s) == [isstr |-> TRUE, items |-> {s}]

IsSubstr(a, b) ==
    \E i \in 0..(Len(b) - Len(a)) : SubSeq(b, i + 1, i + Len(a)) = a

\* cat in category
InCategory(cat, category) ==
    IF category.isstr
    THEN \E s \in category.items : IsSubstr(cat, s)
    ELSE cat \in category.items

\* if not isinstance(purity, (list, tuple)): purity = [purity]
PurityList(purity) == purity.items

\* regex.match(fn) for r"^.*-(p1|p2|...)\.\w+$"
RegexMatch(fn, purities) ==
    \E i \in 1..Len(fn) : \E j \in (i + 1)..(Len(fn) - 1) :
        /\ fn[i] = "-"
        /\ SubSeq(fn, i + 1, j - 1) \in purities
        /\ fn[j] = "."
        /\ \A k \in (j + 1)..Len(fn) : IsWord(fn[k])

IsPrefix(p, q) == Len(p) <= Len(q) /\ SubSeq(q, 1, Len(p)) = p

\* image_path.rglob("*.*"): the paths below image_path whose name has a dot
RGlob(disk, image_path) ==
    {f \in disk :
        LET parts == PathParts(f)
            name == PathName(parts)
        IN  /\ IsPrefix(image_path, parts)
            /\ Len(parts) > Len(image_path)
            /\ \E i \in 1..Len(name) : name[i] = "."}

\* the filter without its test of the category
AcceptedAnyCategory(f, category, purities) ==
    LET parts == PathParts(f)
    IN  Len(parts) >= 2 /\ RegexMatch(parts[Len(parts)], purities)

\* the filter of get_images: *_, cat, fn = i.parts
Accepted(f, category, purities) ==
    LET parts == PathParts(f)
    IN  /\ Len(parts) >= 2
        /\ InCategory(parts[Len(parts) - 1], category)
        /\ RegexMatch(parts[Len(parts)], purities)

RECURSIVE SeqOf(_)
\* the order in which the directory walk yields a set of paths
SeqOf(S) ==
    IF S = {} THEN <<>>
    ELSE LET x == CHOOSE y \in S : TRUE IN <<x>> \o SeqOf(S \ {x})

\* [i for i in get_images(prefix)]
get_images(disk, destination, prefix, category, purities) ==
    SeqOf({f \in RGlob(disk, PathParts(destination \o <<"/">> \o prefix)) :
               Accepted(f, category, purities)})

FreshWeight == 20
SavedWeight == 10

Repeat(w, n) == [i \in 1..n |-> w]

\* images = fresh_images + saved_images
Images(fresh_images, saved_images) == fresh_images \o saved_images

\* the weights with the two halves in the other order
WeightsSavedFirst(fresh_images, saved_images) ==
    Repeat(SavedWeight, Len(saved_images))
        \o Repeat(FreshWeight, Len(fresh_images))

\* fresh_weights = [20] * len(fresh_images), saved_weights likewise;
\* weights = fresh_weights + saved_weights
Weights(fresh_images, saved_images) ==
    Repeat(FreshWeight, Len(fresh_images))
        \o Repeat(SavedWeight, Len(saved_images))

RECURSIVE Accumulate(_)
\* itertools.accumulate(weights)
Accumulate(w) ==
    IF Len(w) = 0 THEN <<>>
    ELSE LET front == Accumulate(SubSeq(w, 1, Len(w) - 1))
         IN  front \o <<(IF Len(front) = 0 THEN 0 ELSE front[Len(front)])
                            + w[Len(w)]>>

\* random.choices: bisect(cum_weights, random() * total), the draw random() *
\* total falling in [t, t + 1) for a ticket t in 0..total-1
Bisect(cum, t) == CHOOSE i \in 1..Len(cum) :
                      cum[i] > t /\ \A j \in 1..(i - 1) : cum[j] <= t

Total(cum) == cum[Len(cum)]

NoDestination == [given |-> FALSE, path |-> <<>>]
Given(p) == [given |-> TRUE, path |-> p]

Outcome(c, result, category, purity, destination, choice) ==
    [cmd |-> c, result |-> result, category |-> category, purity |-> purity,
     destination |-> destination, choice |-> choice]

\* except IndexError: raise click.exceptions.Exit("Error: no images found");
\* any other exception leaves the command as it is
ExitForSilent(err) == "ok"
ExitFor(err) == IF err = "IndexError" THEN "no images found" ELSE err

\* The body of Wallpaper.choose_random_background from the regex on, run on
\* the disk as it is when the selector is called.  IndexError, from the draw
\* on an empty list or from from_filepath, becomes the Exit "no images found".
\* (Each local is bound once, as the code binds it: \E x \in {e}.)
Select(c, disk, category, purity, destination) ==
    \E fresh_images \in {get_images(disk, destination, <<"fresh">>, category,
                                    PurityList(purity))},
       saved_images \in {get_images(disk, destination, <<"saved">>, category,
                                    PurityList(purity))} :
    \E images \in {Images(fresh_images, saved_images)},
       cum \in {Accumulate(Weights(fresh_images, saved_images))} :
        IF Len(cum) = 0
        THEN /\ bg' = bg
             /\ last' = Outcome(c, ExitFor("IndexError"), category, purity,
                                Given(destination), <<>>)
        ELSE \E k \in {Bisect(cum, t) : t \in 0..(Total(cum) - 1)} :
             \E r \in {from_filepath(images[k])} :
                 IF r.ok
                 THEN /\ bg' = Uri(r.wp)
                      /\ last' = Outcome(c, "ok", category, purity,
                                         Given(destination), images[k])
                 ELSE /\ bg' = bg
                      /\ last' = Outcome(c, ExitFor(r.err), category, purity,
                                         Given(destination), images[k])

----------------------------------------------------------------------------
(* The commands *)

Root == <<"/", "pics">>

\* what --category and --purity are tried with
CategoryArgs == {CATEGORIES, {<<"general">>, <<"anime">>}}
PurityArgs == {{<<"sfw">>}, {<<"sfw">>, <<"nsfw">>}}
DestinationArgs == {NoDestination, Given(Root)}

\* no selection was run: nothing was filtered on
NoArgs == Tuple({})

\* wallhaven choose-random-background
choose_random_background ==
    \E category \in CategoryArgs, purity \in PurityArgs,
       destination \in DestinationArgs :
        /\ fs' = fs
        /\ UNCHANGED <<codecVars, batchVars>>
        /\ IF ~destination.given
           THEN /\ bg' = bg
                /\ last' = Outcome("choose", "destination needs to be set",
                                   NoArgs, NoArgs, destination, <<>>)
           ELSE Select("choose", fs, Tuple(category), Tuple(purity),
                       destination.path)

\* wallhaven show-wallpaper
show_wallpaper ==
    \E cur \in {get_current(bg)} :
        /\ UNCHANGED <<fs, bg, codecVars, batchVars>>
        /\ last' = Outcome("show", IF cur.ok THEN "ok" ELSE cur.err,
                           NoArgs, NoArgs, NoDestination,
                           IF cur.ok THEN PathStr(filename(cur.wp)) ELSE <<>>)

\* if wp.kind != 'fresh': raise click.exceptions.Exit(...)
RefusedNever(wp) == FALSE
Refused(wp) == wp.kind # <<"fresh">>

\* wp.filename.unlink(): the disk without the file
UnlinkLater(disk, file) == disk
Unlink(disk, file) == disk \ {file}

\* wallhaven delete-wallpaper
delete_wallpaper ==
    \E cur \in {get_current(bg)} :
        /\ UNCHANGED <<codecVars, batchVars>>
        /\ IF ~cur.ok
           THEN /\ UNCHANGED <<fs, bg>>
                /\ last' = Outcome("delete", cur.err, NoArgs, NoArgs,
                                   NoDestination, <<>>)
           ELSE IF Refused(cur.wp)
           THEN /\ UNCHANGED <<fs, bg>>
                /\ last' = Outcome("delete", "has been saved", NoArgs,
                                   NoArgs, NoDestination, <<>>)
           ELSE \E file \in {PathStr(filename(cur.wp))} :
                IF file \notin fs
                THEN /\ UNCHANGED <<fs, bg>>
                     /\ last' = Outcome("delete", "FileNotFoundError", NoArgs,
                                        NoArgs, NoDestination, <<>>)
                ELSE /\ fs' = Unlink(fs, file)
                     /\ Select("delete", Unlink(fs, file),
                               OneStr(cur.wp.category), OneStr(cur.wp.purity),
                               cur.wp.destination_path)

\* wallhaven save-wallpaper
save_wallpaper ==
    \E destination \in DestinationArgs :
        /\ UNCHANGED <<codecVars, batchVars>>
        /\ IF ~destination.given
           THEN /\ UNCHANGED <<fs, bg>>
                /\ last' = Outcome("save", "TypeError", NoArgs, NoArgs,
                                   destination, <<>>)
           ELSE \E cur \in {get_current(bg)} :
                IF ~cur.ok
                THEN /\ UNCHANGED <<fs, bg>>
                     /\ last' = Outcome("save", cur.err, NoArgs, NoArgs,
                                        destination, <<>>)
                ELSE \E file \in {filename(cur.wp)} :
                     \E dest \in {PathParts(destination.path
                                      \o <<"/", "saved", "/">>
                                      \o file[Len(file) - 1] \o <<"/">>
                                      \o file[Len(file)])} :
                         IF PathStr(file) \notin fs
                         THEN /\ UNCHANGED <<fs, bg>>
                              /\ last' = Outcome("save", "FileNotFoundError",
                                                 NoArgs, NoArgs, destination,
                                                 <<>>)
                         ELSE /\ fs' = (fs \ {PathStr(file)})
                                           \cup {PathStr(dest)}
                              /\ bg' = bg
                              /\ last' = Outcome("save", "ok", NoArgs, NoArgs,
                                                 destination, PathStr(dest))

----------------------------------------------------------------------------
(* Specification of the desktop commands on a tree of downloaded files *)

ImageUrl == <<"https:", "/", "/", "w", "/", "full", "/", "x", ".", "jpg">>

\* the files a tree may hold: what get-wallpapers and save-wallpaper leave
DiskCategories == {<<"anime">>, <<"people">>}
DiskPurities == {<<"sfw">>, <<"nsfw">>}
DiskIds == {<<"a">>, <<"b">>}

Layout ==
    {PathStr(filename(Wallpaper(i, ImageUrl, c, p, Root, k))) :
        i \in DiskIds, c \in DiskCategories, p \in DiskPurities, k \in Kinds}

RECURSIVE Trees(_)
\* the sets of at most n files
Trees(n) ==
    IF n = 0 THEN {{}}
    ELSE Trees(n - 1) \cup {t \cup {f} : t \in Trees(n - 1), f \in Layout}

\* the picture GNOME shows before any wallpaper was chosen: a file outside
\* the tree, whose name is not of the codec's shape
DefaultBackground ==
    <<"/", "usr", "/", "share", "/", "backgrounds", "/", "adwaita", ".", "jpg">>

DeskInit ==
    /\ \E t \in Trees(MaxFiles) : fs = t \cup {DefaultBackground}
    /\ \E f \in fs : bg = <<"file://">> \o f
    /\ last = Outcome("none", "ok", NoArgs, NoArgs, NoDestination, <<>>)

----------------------------------------------------------------------------
(* get-wallpapers: the batch download *)

\* what the server does with the requests for one descriptor: "ok" answers
\* 200 and sends the body, "permanent" answers 4xx every time, "transient"
\* may drop the connection at any request or in the middle of any body
Behaviours == {"ok", "permanent", "transient"}

NewTask == [pc |-> "start", tries |-> 0, expired |-> FALSE, requests |-> 0,
            exists |-> FALSE, written |-> 0]

BatchIdle ==
    /\ descr = <<>>
    /\ task = <<>>
    /\ gather = "none"
    /\ session = "none"
    /\ command = "idle"

\* get_wallpapers up to loop.run_until_complete(download_wallpapers(...)):
\* the session is opened and gather wraps every w.download(session) in a task
get_wallpapers ==
    /\ command = "idle"
    /\ UNCHANGED <<codecVars, deskVars>>
    /\ \E destination \in DestinationArgs :
         IF ~destination.given
         THEN /\ command' = "raised"
              /\ UNCHANGED <<descr, task, gather, session>>
         ELSE \E n \in 0..MaxBatch : \E d \in [1..n -> Behaviours] :
                /\ descr' = d
                /\ task' = [i \in 1..n |-> NewTask]
                /\ gather' = "waiting"
                /\ session' = "open"
                /\ command' = "running"

Running(i) == command = "running" /\ i \in 1..Len(task)

\* Every task gather has scheduled runs to its first await before the loop
\* handles any I/O, timer or callback
AllStarted == \A i \in 1..Len(task) : task[i].pc # "start"

\* backoff's handler of aiohttp.ClientError, which ClientResponseError (a 4xx
\* under raise_for_status) is too: give up when the attempt began with the
\* window of max_time elapsed, sleep and go round again otherwise
on_exception(t) ==
    IF t.expired THEN [t EXCEPT !.pc = "failed"] ELSE [t EXCEPT !.pc = "sleep"]

\* the top of backoff's loop and of download: tries += 1, elapsed is read
\* (late: it has reached max_time), the directory is made, the request sent
send(t, late) ==
    [t EXCEPT !.pc = "get", !.tries = @ + 1, !.expired = late,
              !.requests = @ + 1]

\* the first attempt of a download, begun at elapsed 0
attempt(i) ==
    /\ Running(i)
    /\ task[i].pc = "start"
    /\ task' = [task EXCEPT ![i] = send(@, FALSE)]
    /\ UNCHANGED <<descr, gather, session, command, codecVars, deskVars>>

\* asyncio.sleep(seconds) of backoff is over and the next attempt begins;
\* the attempts that begin inside the window are bounded
retry(i) ==
    /\ Running(i)
    /\ AllStarted
    /\ task[i].pc = "sleep"
    /\ task[i].tries < MaxTries
    /\ \E late \in BOOLEAN :
         /\ task[i].tries + 1 = MaxTries => late
         /\ task' = [task EXCEPT ![i] = send(@, late)]
    /\ UNCHANGED <<descr, gather, session, command, codecVars, deskVars>>

\* session.get answers 200: aiofiles.open(fn, "wb") creates or truncates
respond_ok(i) ==
    /\ Running(i)
    /\ AllStarted
    /\ task[i].pc = "get"
    /\ descr[i] \in {"ok", "transient"}
    /\ task' = [task EXCEPT ![i] =
           [@ EXCEPT !.pc = "stream", !.exists = TRUE, !.written = 0]]
    /\ UNCHANGED <<descr, gather, session, command, codecVars, deskVars>>

\* session.get raises: a 4xx status, or a dropped connection
respond_error(i) ==
    /\ Running(i)
    /\ AllStarted
    /\ task[i].pc = "get"
    /\ descr[i] \in {"permanent", "transient"}
    /\ task' = [task EXCEPT ![i] = on_exception(@)]
    /\ UNCHANGED <<descr, gather, session, command, codecVars, deskVars>>

\* one round of async for data in iter_chunked(1024): await f.write(data)
write_chunk(i) ==
    /\ Running(i)
    /\ AllStarted
    /\ task[i].pc = "stream"
    /\ task[i].written < MaxChunks
    /\ task' = [task EXCEPT ![i] = [@ EXCEPT !.written = @ + 1]]
    /\ UNCHANGED <<descr, gather, session, command, codecVars, deskVars>>

\* the body breaks off: ClientPayloadError out of iter_chunked
stream_error(i) ==
    /\ Running(i)
    /\ AllStarted
    /\ task[i].pc = "stream"
    /\ task[i].written < MaxChunks
    /\ descr[i] = "transient"
    /\ task' = [task EXCEPT ![i] = on_exception(@)]
    /\ UNCHANGED <<descr, gather, session, command, codecVars, deskVars>>

\* the body is exhausted: the file is closed, download returns
finish(i) ==
    /\ Running(i)
    /\ AllStarted
    /\ task[i].pc = "stream"
    /\ task[i].written = MaxChunks
    /\ task' = [task EXCEPT ![i] = [@ EXCEPT !.pc = "done"]]
    /\ UNCHANGED <<descr, gather, session, command, codecVars, deskVars>>

\* asyncio.gather without return_exceptions: the first exception of a child
\* is set on the awaited future at once, the other children are left running
gather_raise ==
    /\ command = "running"
    /\ AllStarted
    /\ gather = "waiting"
    /\ \E i \in 1..Len(task) : task[i].pc = "failed"
    /\ gather' = "raised"
    /\ UNCHANGED <<descr, task, session, command, codecVars, deskVars>>

\* every child has returned
gather_return ==
    /\ command = "running"
    /\ AllStarted
    /\ gather = "waiting"
    /\ \A i \in 1..Len(task) : task[i].pc = "done"
    /\ gather' = "returned"
    /\ UNCHANGED <<descr, task, session, command, codecVars, deskVars>>

\* download_wallpapers leaves "async with": the session is closed, and
\* run_until_complete stops the loop and returns or raises
exit ==
    /\ command = "running"
    /\ gather \in {"raised", "returned"}
    /\ session' = "closed"
    /\ command' = gather
    /\ UNCHANGED <<descr, task, gather, codecVars, deskVars>>

----------------------------------------------------------------------------
(* Specifications *)

CodecIdle ==
    /\ rec = Wallpaper(<<>>, <<>>, <<>>, <<>>, <<>>, <<>>)
    /\ enc = NoPath
    /\ dec = NoRecord
    /\ cpc = "idle"

DeskIdle ==
    /\ fs = {}
    /\ bg = <<>>
    /\ last = Outcome("none", "ok", NoArgs, NoArgs, NoDestination, <<>>)

CodecNext == Encode \/ Decode

DeskNext ==
    \/ choose_random_background
    \/ show_wallpaper
    \/ delete_wallpaper
    \/ save_wallpaper

BatchNext ==
    \/ get_wallpapers
    \/ \E i \in 1..MaxBatch : attempt(i)
    \/ \E i \in 1..MaxBatch : respond_ok(i)
    \/ \E i \in 1..MaxBatch : respond_error(i)
    \/ \E i \in 1..MaxBatch : write_chunk(i)
    \/ \E i \in 1..MaxBatch : stream_error(i)
    \/ \E i \in 1..MaxBatch : finish(i)
    \/ \E i \in 1..MaxBatch : retry(i)
    \/ gather_raise
    \/ gather_return
    \/ exit

\* the desktop commands, run in any order on a tree of downloaded files
Init == DeskInit /\ CodecIdle /\ BatchIdle
Next == DeskNext
Spec == Init /\ [][Next]_vars

\* a record encoded and decoded
InitCodec == CodecInit /\ DeskIdle /\ BatchIdle
SpecCodec == InitCodec /\ [][CodecNext]_vars

\* one run of get-wallpapers
InitBatch == BatchIdle /\ CodecIdle /\ DeskIdle
SpecBatch == InitBatch /\ [][BatchNext]_vars

----------------------------------------------------------------------------
(* Properties of the codec (checked under SpecCodec) *)

HasAtom(s, a) == \E i \in 1..Len(s) : s[i] = a

\* the decoded record is rec in id, purity, category, kind and storage root
SameRecord ==
    /\ dec.ok
    /\ dec.wp.id = rec.id
    /\ dec.wp.purity = rec.purity
    /\ dec.wp.category = rec.category
    /\ dec.wp.kind = rec.kind
    /\ PathParts(dec.wp.destination_path) = PathParts(rec.destination_path)

\* C1 as stated: every record whose id has no "-" and no "/" is recovered by
\* from_filepath from its filename.
C1_RoundTripAnyId ==
    (cpc = "decoded" /\ ~HasAtom(rec.id, "-") /\ ~HasAtom(rec.id, "/"))
        => SameRecord

\* C1 as amended: every record whose id has no "-" and no "/", and has no "."
\* either unless the URL gives the file an extension, is recovered by
\* from_filepath from its filename.
C1_RoundTrip ==
    (/\ cpc = "decoded"
     /\ ~HasAtom(rec.id, "-")
     /\ ~HasAtom(rec.id, "/")
     /\ (HasAtom(rec.id, ".") => PathSuffix(PathParts(rec.url)) # <<>>))
        => SameRecord

\* a record with a dot in its id and an extension has been encoded and decoded
C1_Witness ==
    /\ cpc = "decoded"
    /\ rec.id = <<"a", ".">>
    /\ PathSuffix(PathParts(rec.url)) = <<".", "jpg">>
    /\ rec.destination_path = <<"/", "pics", "/", "w">>
    /\ SameRecord

----------------------------------------------------------------------------
(* Properties of the desktop commands (checked under Spec) *)

BgPath == Remove(bg, "file://")

Selected == last.cmd \in {"choose", "delete"} /\ last.destination.given

\* the token between the last "-" and the extension of a file name
PurityToken(f) ==
    LET toks == Split(PathStem(PathParts(f)), "-") IN toks[Len(toks)]

ParentName(f) == PathParts(f)[Len(PathParts(f)) - 1]

UnderKind(f, root, kind) ==
    IsPrefix(PathParts(root) \o <<kind>>, PathParts(f))

\* f passes the filter of the selection (root, C, P)
Passes(f, root, C, P) ==
    /\ UnderKind(f, root, <<"fresh">>) \/ UnderKind(f, root, <<"saved">>)
    /\ ParentName(f) \in C
    /\ PurityToken(f) \in P

\* C2: whenever a selection has set a background, the file drawn and the
\* background set lie under <root>/fresh or <root>/saved, in a directory
\* named in C, with a purity token in P.
C2_FilterCorrect ==
    (Selected /\ last.result = "ok")
        => /\ last.choice \in fs
           /\ Passes(last.choice, last.destination.path,
                     last.category.items, last.purity.items)
           /\ Passes(BgPath, last.destination.path,
                     last.category.items, last.purity.items)

\* a selection over {general, anime} and {sfw} has set a background while a
\* "people" file and an "nsfw" file were on disk
C2_Witness ==
    /\ last.cmd = "choose"
    /\ last.result = "ok"
    /\ last.category.items = {<<"general">>, <<"anime">>}
    /\ last.purity.items = {<<"sfw">>}
    /\ \E f \in fs \ {DefaultBackground} :
           ParentName(f) = <<"people">> /\ PurityToken(f) = <<"sfw">>
    /\ \E f \in fs \ {DefaultBackground} :
           ParentName(f) = <<"anime">> /\ PurityToken(f) = <<"nsfw">>

\* C4: delete-wallpaper on a background that decodes to kind "saved" fails
\* with the "has been saved" error and changes neither disk nor pointer.
C4_DeleteGuard ==
    [][(/\ last'.cmd = "delete"
        /\ get_current(bg).ok
        /\ get_current(bg).wp.kind = <<"saved">>)
          => (/\ last'.result = "has been saved"
              /\ fs' = fs
              /\ bg' = bg)]_vars

\* delete-wallpaper has been refused on a saved background that is on disk
C4_Witness ==
    /\ last.cmd = "delete"
    /\ last.result = "has been saved"
    /\ BgPath \in fs
    /\ get_current(bg).wp.kind = <<"saved">>

\* C5: a selection that finds no file passing its filter ends in the error
\* "no images found" and leaves the background pointer as it was.
C5_EmptyPool ==
    [][(/\ last'.cmd \in {"choose", "delete"}
        /\ last'.destination.given
        /\ ~\E f \in fs' : Passes(f, last'.destination.path,
                                  last'.category.items, last'.purity.items))
          => (last'.result = "no images found" /\ bg' = bg)]_vars

\* choose-random-background has failed on a tree that holds images, none of
\* them passing the filter
C5_Witness ==
    /\ last.cmd = "choose"
    /\ last.result = "no images found"
    /\ fs # {DefaultBackground}
    /\ BgPath \in fs

Range(q) == {q[i] : i \in 1..Len(q)}

\* C8: in a selection every file that passes the filter is a candidate,
\* once; the weight at its index is 20 under <root>/fresh and 10 under
\* <root>/saved; and of the sum-of-weights equally likely outcomes of the
\* draw, as many pick a candidate as its weight.
C8_Weighting ==
    Selected =>
      LET root == last.destination.path
          fresh_images == get_images(fs, root, <<"fresh">>, last.category,
                                     PurityList(last.purity))
          saved_images == get_images(fs, root, <<"saved">>, last.category,
                                     PurityList(last.purity))
          images == Images(fresh_images, saved_images)
          weights == Weights(fresh_images, saved_images)
          cum == Accumulate(weights)
      IN  /\ Len(weights) = Len(images)
          /\ Range(images) = {f \in fs : Passes(f, root, last.category.items,
                                                last.purity.items)}
          /\ Cardinality(Range(images)) = Len(images)
          /\ \A i \in 1..Len(images) :
               /\ UnderKind(images[i], root, <<"fresh">>) => weights[i] = 20
               /\ UnderKind(images[i], root, <<"saved">>) => weights[i] = 10
               /\ Cardinality({t \in 0..(Total(cum) - 1) :
                                   Bisect(cum, t) = i}) = weights[i]

\* a draw among two fresh candidates and one saved candidate has picked the
\* saved one
C8_Witness ==
    /\ last.cmd = "choose"
    /\ last.result = "ok"
    /\ UnderKind(last.choice, Root, <<"saved">>)
    /\ Cardinality({f \in fs : /\ UnderKind(f, Root, <<"fresh">>)
                               /\ Passes(f, Root, last.category.items,
                                         last.purity.items)}) = 2
    /\ Cardinality({f \in fs : /\ UnderKind(f, Root, <<"saved">>)
                               /\ Passes(f, Root, last.category.items,
                                         last.purity.items)}) = 1

\* C9: delete-wallpaper on an existing background of kind "fresh", category
\* c, purity p and root d removes the file, then selects over exactly c, p
\* and d; if it succeeds, the new background is a file on disk, of category
\* c and purity p, other than the file removed.
C9_DeleteReselect ==
    [][(/\ last'.cmd = "delete"
        /\ get_current(bg).ok
        /\ get_current(bg).wp.kind = <<"fresh">>
        /\ BgPath \in fs)
          => (/\ fs' = fs \ {BgPath}
              /\ last'.category = OneStr(get_current(bg).wp.category)
              /\ last'.purity = OneStr(get_current(bg).wp.purity)
              /\ last'.destination
                     = Given(get_current(bg).wp.destination_path)
              /\ last'.result = "ok"
                   => (/\ Remove(bg', "file://") \in fs'
                       /\ Remove(bg', "file://") # BgPath
                       /\ get_current(bg').wp.category
                              = get_current(bg).wp.category
                       /\ get_current(bg').wp.purity
                              = get_current(bg).wp.purity))]_vars

\* delete-wallpaper has removed a fresh background and set another file
C9_Witness ==
    /\ last.cmd = "delete"
    /\ last.result = "ok"
    /\ BgPath \in fs
    /\ UnderKind(BgPath, Root, <<"saved">>)

\* C10: the background pointer names a file that is on disk.
C10_NoDanglingBackground == BgPath \in fs

----------------------------------------------------------------------------
(* Properties of the batch download (checked under SpecBatch) *)

Exited == command \in {"raised", "returned"}

Tasks == 1..Len(task)

\* C3: when the command is over and one item of the batch was answered 4xx
\* every time while the server served all the others, the files of all the
\* others are fully written.
C3_BatchIsolation ==
    \A k \in Tasks :
        (/\ Exited
         /\ descr[k] = "permanent"
         /\ \A j \in Tasks \ {k} : descr[j] = "ok")
            => \A j \in Tasks \ {k} :
                   /\ task[j].pc = "done"
                   /\ task[j].exists
                   /\ task[j].written = MaxChunks

\* C6: an item whose requests are answered 4xx is requested once and is
\* never put to sleep for a retry.
C6_PermanentNotRetried ==
    \A i \in Tasks :
        descr[i] = "permanent"
            => (task[i].requests <= 1 /\ task[i].pc # "sleep")

\* C7: when the command is over, every download it dispatched has returned
\* or has finally failed.
C7_FanIn ==
    Exited => \A i \in Tasks : task[i].pc \in {"done", "failed"}

====
